---- MODULE Spec2Model ----
(***************************************************************************)
(* Schema reconciliation engine of the Decoupla SDK: syncWithFields and    *)
(* the casing helpers it relies on, as a state machine.  One behaviour is  *)
(* a sequence of invocations of syncWithFields with the same desired       *)
(* schema and options against a backend that the mutation callbacks        *)
(* change.                                                                 *)
(***************************************************************************)
EXTENDS Integers, Sequences, FiniteSets, TLC

VARIABLES
    desired,              \* contentTypes argument (normalizedContentTypes)
    options,              \* options argument, as passed by the caller
    backend,              \* content types held by the remote backend
    remoteAtStart,        \* the backend as it was when the invocation began
    pc,                   \* position inside syncWithFields
    i,                    \* index of the content type the current loop is at
    k,                    \* index inside fieldsToCreate/Update/Delete
    contentTypeIdToName,  \* Map id -> name
    contentTypeNameToId,  \* Map name -> id
    remoteMap,            \* Map name -> [id, fields]
    actions,              \* SyncAction[] being accumulated
    fieldDiffs,           \* FieldDiff[] of the content type being processed
    fieldsToCreate,
    fieldsToUpdate,
    fieldsToDelete,
    error,                \* the Error thrown out of syncWithFields, if any
    log                   \* remote operations of the current invocation

vars == <<desired, options, backend, remoteAtStart, pc, i, k, contentTypeIdToName,
          contentTypeNameToId, remoteMap, actions, fieldDiffs,
          fieldsToCreate, fieldsToUpdate, fieldsToDelete, error, log>>

----------------------------------------------------------------------------
(* Bounds of the model *)

\* largest number of content types, desired or remote
MaxContentTypes == 2
\* largest number of fields in the desired schema, all types together
MaxFields == 2
\* largest number of fields in the initial remote state, all types together
MaxRemoteFields == 1
\* longest references / options list of the field-diff inputs
MaxListLen == 2
\* longest content-type name of a configuration file
MaxNameLen == 4

----------------------------------------------------------------------------
(* Optional values: undefined is {}, a present value v is {v} *)

Undefined == {}
Some(v) == {v}
OrElse(opt, d) == IF opt = {} THEN d ELSE CHOOSE v \in opt : TRUE

(* Strings whose characters matter (field names) are sequences of
   one-character strings. *)
LowerChars == {"t", "v", "c"}
UpperChars == {"T", "V", "C"}
ToLower == ("T" :> "t") @@ ("V" :> "v") @@ ("C" :> "c")
ToUpper == ("t" :> "T") @@ ("v" :> "V") @@ ("c" :> "C")

RECURSIVE SnakeFrom(_, _)
SnakeFrom(str, offset) ==
    IF offset > Len(str) THEN <<>>
    ELSE LET ch == str[offset]
             out == IF ch \in UpperChars
                    THEN IF offset = 1 THEN <<ToLower[ch]>>
                                       ELSE <<"_", ToLower[ch]>>
                    ELSE <<ch>>
         IN out \o SnakeFrom(str, offset + 1)

\* str.replace(/([A-Z])/g, ...): lower-case every capital, with an
\* underscore in front of it unless it is the first character
camelToSnake(str) == SnakeFrom(str, 1)

RECURSIVE CamelFrom(_, _)
CamelFrom(str, offset) ==
    IF offset > Len(str) THEN <<>>
    ELSE IF str[offset] = "_" /\ offset < Len(str)
            /\ str[offset + 1] \in LowerChars
         THEN <<ToUpper[str[offset + 1]]>> \o CamelFrom(str, offset + 2)
         ELSE <<str[offset]>> \o CamelFrom(str, offset + 1)

\* str.replace(/_([a-z])/g, ...): an underscore followed by a lower-case
\* letter becomes that letter in upper case
snakeToCamel(str) == CamelFrom(str, 1)

Range(s) == {s[n] : n \in 1..Len(s)}

(* Content-type names and identifiers are whole strings.  Array.sort()
   orders strings by code unit: '#' sorts before the letters. *)
NamePool == <<"a", "b", "c">>
IdPool == <<"#1", "#2", "#3">>
CtNames == {NamePool[n] : n \in 1..MaxContentTypes}
CtIds == {IdPool[n] : n \in 1..MaxContentTypes}
StrRank == [s \in Range(IdPool) \cup Range(NamePool) |->
              IF s \in Range(IdPool)
              THEN CHOOSE n \in 1..Len(IdPool) : IdPool[n] = s
              ELSE Len(IdPool) + (CHOOSE n \in 1..Len(NamePool) : NamePool[n] = s)]

RECURSIVE Insert(_, _)
Insert(x, s) ==
    IF s = <<>> THEN <<x>>
    ELSE IF StrRank[x] <= StrRank[Head(s)] THEN <<x>> \o s
         ELSE <<Head(s)>> \o Insert(x, Tail(s))

RECURSIVE Sort(_)
\* Array.prototype.sort() on strings
Sort(s) == IF s = <<>> THEN <<>> ELSE Insert(Head(s), Sort(Tail(s)))

\* sequences over S of length at most n
SeqsUpTo(S, n) == UNION {[1..m -> S] : m \in 0..n}

\* the entries of pool at the indices in S, in the order of the pool
PickFrom(pool, S) == SelectSeq(pool, LAMBDA e : \E n \in S : pool[n] = e)

\* selections of at most n entries of pool
SelectionsUpTo(pool, n) ==
    {PickFrom(pool, S) : S \in {T \in SUBSET DOMAIN pool : Cardinality(T) <= n}}

----------------------------------------------------------------------------
(* Inputs: desired schemas, options, initial remote states *)

FieldTypes == {"string", "int", "reference"}

\* FieldDefinition: type, required?, isLabel?, options?, references?
FieldDef(type, required, isLabel, opts, references) ==
    [type |-> type, required |-> required, isLabel |-> isLabel,
     options |-> opts, references |-> references]

\* [key, definition] entries a desired content type draws its fields from
DesiredFieldPool ==
   << [key |-> <<"T">>,
       def |-> FieldDef("string", Some(TRUE), Some(TRUE), Undefined, Undefined)],
      [key |-> <<"t">>,
       def |-> FieldDef("string", Undefined, Undefined, Some(<<"p", "q">>), Undefined)],
      [key |-> <<"v", "C">>,
       def |-> FieldDef("int", Some(FALSE), Some(FALSE), Undefined, Undefined)],
      [key |-> <<"c">>,
       def |-> FieldDef("reference", Undefined, Undefined, Undefined,
                        Some(<<"b", "a">>))] >>

RECURSIVE TotalLen(_, _)
\* number of fields in the first n field lists of fl
TotalLen(fl, n) == IF n = 0 THEN 0 ELSE Len(fl[n]) + TotalLen(fl, n - 1)

DistinctBy(s, F(_)) == \A m, n \in 1..Len(s) : m # n => F(s[m]) # F(s[n])

KeyOf(e) == e.key
NameOf(ct) == ct.name
SlugOf(r) == r.slug

DesiredFieldLists ==
    {fs \in SelectionsUpTo(DesiredFieldPool, MaxFields) : DistinctBy(fs, KeyOf)}

DesiredContentTypes ==
    [name : CtNames, fields : DesiredFieldLists]

\* the contentTypes argument: one to MaxContentTypes definitions with
\* distinct names
DesiredSchemas ==
    {ds \in SeqsUpTo(DesiredContentTypes, MaxContentTypes) :
        /\ Len(ds) >= 1
        /\ TotalLen([n \in 1..Len(ds) |-> ds[n].fields], Len(ds)) <= MaxFields
        /\ \A m, n \in 1..Len(ds) :
              m < n => StrRank[ds[m].name] < StrRank[ds[n].name]}

Callbacks == {"createContentType", "createField", "updateField", "deleteField"}

\* syncWithFieldsBound: the options of the caller merged over the four
\* remote callbacks
syncWithFieldsBound(opts) == [opts EXCEPT !.callbacks = Callbacks \cup @]

\* the options syncSchemas of the command line passes to the bound client;
\* cliDryRun is its own dryRun option, Undefined when left out:
\* deleteExtraFields is never passed on
syncSchemas(cliDryRun) ==
    syncWithFieldsBound(
        [dryRun |-> Some(OrElse(cliDryRun, FALSE)),
         createMissing |-> Some(~OrElse(cliDryRun, FALSE)),
         createMissingFields |-> Some(~OrElse(cliDryRun, FALSE)),
         updateFields |-> Some(~OrElse(cliDryRun, FALSE)),
         deleteExtraFields |-> Undefined,
         callbacks |-> {}])

\* sync --dry
previewSync == syncSchemas(Some(TRUE))

\* sync without --dry
applySync == syncSchemas(Undefined)

\* SyncOptions: a flag left out of the options object is Undefined.  The
\* caller either sets every flag and supplies every callback (the bound
\* client does), or leaves the flags out, with or without callbacks, or
\* is the command line.
OptionSets ==
    {previewSync, applySync}
    \cup
    [dryRun : {Some(TRUE), Some(FALSE)},
     createMissing : {Some(TRUE), Some(FALSE)},
     createMissingFields : {Some(TRUE), Some(FALSE)},
     updateFields : {Some(TRUE), Some(FALSE)},
     deleteExtraFields : {Some(TRUE), Some(FALSE)},
     callbacks : {Callbacks}]
    \cup
    [dryRun : {Undefined}, createMissing : {Undefined},
     createMissingFields : {Undefined}, updateFields : {Undefined},
     deleteExtraFields : {Undefined}, callbacks : {Callbacks, {}}]

\* fields an initial remote content type draws from (ids are given by
\* MkBackend); refs says whether the field points at the remote types
RemoteFieldPool ==
   << [slug |-> <<"t">>, type |-> "string", required |-> TRUE,
       is_label |-> TRUE, options |-> Undefined, refs |-> FALSE],
      [slug |-> <<"t">>, type |-> "string", required |-> FALSE,
       is_label |-> FALSE, options |-> Some(<<"p", "q">>), refs |-> FALSE],
      [slug |-> <<"v", "_", "c">>, type |-> "string", required |-> FALSE,
       is_label |-> FALSE, options |-> Undefined, refs |-> FALSE],
      [slug |-> <<"c">>, type |-> "reference", required |-> FALSE,
       is_label |-> FALSE, options |-> Undefined, refs |-> TRUE] >>

RemoteFieldLists ==
    {fs \in SelectionsUpTo(RemoteFieldPool, MaxRemoteFields) : DistinctBy(fs, SlugOf)}

\* names of the remote content types, in creation order
RemoteNameLists ==
    {ns \in SeqsUpTo(CtNames, MaxContentTypes) :
        \A m, n \in 1..Len(ns) : m < n => StrRank[ns[m]] < StrRank[ns[n]]}

\* the backend state with content types ns, the n-th having fields fl[n]
MkBackend(ns, fl) ==
    [n \in 1..Len(ns) |->
        [id |-> IdPool[n], slug |-> ns[n],
         fields |-> [j \in 1..Len(fl[n]) |->
            [id |-> TotalLen(fl, n - 1) + j,
             slug |-> fl[n][j].slug,
             type |-> fl[n][j].type,
             is_label |-> fl[n][j].is_label,
             required |-> fl[n][j].required,
             options |-> fl[n][j].options,
             reference_types |->
                IF fl[n][j].refs THEN [m \in 1..Len(ns) |-> IdPool[m]]
                                 ELSE <<>>]]]]

InitialBackends ==
    UNION {{MkBackend(ns, fl) :
                fl \in {f \in [1..Len(ns) -> RemoteFieldLists] :
                           TotalLen(f, Len(ns)) <= MaxRemoteFields}} :
             ns \in RemoteNameLists}

----------------------------------------------------------------------------
(* The destructured options, with their defaults *)

\* variant: a dry run must be asked for
dryRunDefaultFalse == OrElse(options.dryRun, FALSE)

dryRun == OrElse(options.dryRun, TRUE)
createMissing == OrElse(options.createMissing, TRUE)
createMissingFields == OrElse(options.createMissingFields, TRUE)
updateFields == OrElse(options.updateFields, TRUE)
deleteExtraFields == OrElse(options.deleteExtraFields, FALSE)
createContentType == "createContentType" \in options.callbacks
createField == "createField" \in options.callbacks
updateField == "updateField" \in options.callbacks
deleteField == "deleteField" \in options.callbacks

----------------------------------------------------------------------------
(* Maps.  A Map with string keys is a function on the set of its keys; a
   Map whose insertion order is iterated (the fields of a remote content
   type) is a sequence of entries with distinct slugs. *)

EmptyMap == <<>>
MapSet(m, key, v) == [x \in DOMAIN m \cup {key} |-> IF x = key THEN v ELSE m[x]]
MapHas(m, key) == key \in DOMAIN m

\* map.get(key) || key
GetOrSelf(m, key) == IF key \in DOMAIN m THEN m[key] ELSE key

FieldsHas(fields, slug) == \E n \in 1..Len(fields) : fields[n].slug = slug
FieldsGet(fields, slug) ==
    fields[CHOOSE n \in 1..Len(fields) : fields[n].slug = slug]

\* contentTypeIdToName after the forEach over the response
IdToNameOf(resp) ==
    [id \in {resp[n].id : n \in 1..Len(resp)} |->
        (resp[CHOOSE n \in 1..Len(resp) : resp[n].id = id]).slug]

\* contentTypeNameToId after the forEach over the response
NameToIdOf(resp) ==
    [name \in {resp[n].slug : n \in 1..Len(resp)} |->
        (resp[CHOOSE n \in 1..Len(resp) : resp[n].slug = name]).id]

\* remoteMap built from the initial inspection: every field keeps its
\* options, reference ids are replaced by names where the id is known
InitialRemoteMapOf(resp) ==
    [name \in {resp[n].slug : n \in 1..Len(resp)} |->
        LET ct == resp[CHOOSE n \in 1..Len(resp) : resp[n].slug = name]
        IN [id |-> ct.id,
            fields |-> [j \in 1..Len(ct.fields) |->
                [id |-> ct.fields[j].id,
                 slug |-> ct.fields[j].slug,
                 type |-> ct.fields[j].type,
                 is_label |-> ct.fields[j].is_label,
                 required |-> ct.fields[j].required,
                 reference_types |->
                    [m \in 1..Len(ct.fields[j].reference_types) |->
                        GetOrSelf(IdToNameOf(resp),
                                  ct.fields[j].reference_types[m])],
                 options |-> ct.fields[j].options]]]]

\* variant: the refresh rebuilds the lookup tables but not remoteMap
StaleRemoteMapOf(resp) == InitialRemoteMapOf(remoteAtStart)

\* remoteMap rebuilt in phase 2: the entries are built without options
RefreshedRemoteMapOf(resp) ==
    [name \in DOMAIN InitialRemoteMapOf(resp) |->
        [id |-> InitialRemoteMapOf(resp)[name].id,
         fields |-> [j \in 1..Len(InitialRemoteMapOf(resp)[name].fields) |->
            [InitialRemoteMapOf(resp)[name].fields[j]
                EXCEPT !.options = Undefined]]]]

----------------------------------------------------------------------------
(* Phase 3: the field diff of one content type *)

IsReferenceType(type) == type = "reference" \/ type = "reference[]"

\* desiredRequired / desiredIsLabel: fdef.required ?? false
Desired(flag) == OrElse(flag, FALSE)

\* snapshot carried by a missing_field diff
DesiredSnapshot(fdef) ==
    [type |-> fdef.type, required |-> Desired(fdef.required),
     isLabel |-> Desired(fdef.isLabel)]

MissingFieldDiff(fname, fdef) ==
    [field |-> fname, reason |-> "missing_field", desired |-> DesiredSnapshot(fdef)]

\* optionsChanged: the lengths differ, or some desired option is not a
\* key of remoteOptionsMap
OptionsChanged(desiredOptions, remoteOptions) ==
    IF Len(OrElse(desiredOptions, <<>>)) # Len(OrElse(remoteOptions, <<>>))
    THEN TRUE
    ELSE \E opt \in Range(OrElse(desiredOptions, <<>>)) :
            opt \notin Range(OrElse(remoteOptions, <<>>))

\* variant: the desired names are compared in the order they are written
DesiredReferencesUnsorted(fdef) == OrElse(fdef.references, <<>>)

\* fdef.references.map(name of ref).sort()
DesiredReferences(fdef) == Sort(OrElse(fdef.references, <<>>))

\* (remoteField.reference_types || []).sort()
ExistingReferences(remoteField) == Sort(remoteField.reference_types)

\* the changes object of a desired field that exists remotely; a key that
\* was not set is Undefined
ChangesOf(fdef, remoteField) ==
    [required |->
        IF remoteField.required # Desired(fdef.required)
        THEN Some([existing |-> remoteField.required,
                   desired |-> Desired(fdef.required)])
        ELSE Undefined,
     isLabel |->
        IF remoteField.is_label # Desired(fdef.isLabel)
        THEN Some([existing |-> remoteField.is_label,
                   desired |-> Desired(fdef.isLabel)])
        ELSE Undefined,
     options |->
        IF OptionsChanged(fdef.options, remoteField.options)
        THEN Some([existing |-> remoteField.options, desired |-> fdef.options])
        ELSE Undefined,
     references |->
        IF IsReferenceType(fdef.type) /\ fdef.references # Undefined
           /\ DesiredReferences(fdef) # ExistingReferences(remoteField)
        THEN Some([existing |-> ExistingReferences(remoteField),
                   desired |-> DesiredReferences(fdef)])
        ELSE Undefined]

NoChanges ==
    [required |-> Undefined, isLabel |-> Undefined, options |-> Undefined,
     references |-> Undefined]

\* the updateChanges object handed on to fieldsToUpdate
UpdateChangesOf(fdef, changes) ==
    [required |-> Some(Desired(fdef.required)),
     isLabel |-> IF changes.isLabel # Undefined
                 THEN Some(Desired(fdef.isLabel)) ELSE Undefined,
     options |-> IF changes.options # Undefined THEN fdef.options ELSE Undefined,
     references |->
        IF IsReferenceType(fdef.type) /\ fdef.references # Undefined
           /\ changes.references # Undefined
        THEN fdef.references ELSE Undefined]

\* the Error thrown when the types differ
TypeMismatchError(fname, ctName, remoteField, fdef) ==
    [field |-> fname, contentType |-> ctName,
     remoteType |-> remoteField.type, desiredType |-> fdef.type]

NoError == [field |-> <<>>, contentType |-> "", remoteType |-> "", desiredType |-> ""]

EmptyDiff ==
    [fieldDiffs |-> <<>>, fieldsToCreate |-> <<>>, fieldsToUpdate |-> <<>>,
     fieldsToDelete |-> <<>>, thrown |-> NoError]

\* variant: a type change is not looked for
TypesNeverDiffer(remoteField, fdef) == FALSE

\* variant: a change of the required flag is fatal as well
TypesOrRequiredDiffer(remoteField, fdef) ==
    remoteField.type # fdef.type \/ remoteField.required # Desired(fdef.required)

\* remoteField.type !== fdef.type
TypesDiffer(remoteField, fdef) == remoteField.type # fdef.type

\* one iteration of the loop over Object.entries(desiredFields)
DesiredFieldStep(acc, ctName, entry, remoteFields, mayCreate, mayUpdate) ==
    IF ~FieldsHas(remoteFields, camelToSnake(entry.key))
    THEN [acc EXCEPT
            !.fieldDiffs = Append(@, MissingFieldDiff(entry.key, entry.def)),
            !.fieldsToCreate =
                IF mayCreate
                THEN Append(@, [name |-> entry.key, def |-> entry.def]) ELSE @]
    ELSE LET remoteField == FieldsGet(remoteFields, camelToSnake(entry.key))
             changes == ChangesOf(entry.def, remoteField)
         IN IF TypesDiffer(remoteField, entry.def)
            THEN [acc EXCEPT !.thrown =
                    TypeMismatchError(entry.key, ctName, remoteField, entry.def)]
            ELSE IF changes = NoChanges THEN acc
            ELSE [acc EXCEPT
                    !.fieldDiffs =
                        Append(@, [field |-> entry.key, reason |-> "field_changes",
                                   changes |-> changes]),
                    !.fieldsToUpdate =
                        IF mayUpdate
                        THEN Append(@, [id |-> remoteField.id, name |-> entry.key,
                                        changes |-> UpdateChangesOf(entry.def, changes)])
                        ELSE @]

RECURSIVE DesiredFieldsLoop(_, _, _, _, _, _, _)
\* the loop over the desired fields from entry n on; it stops at a throw
DesiredFieldsLoop(acc, ctName, desiredFields, n, remoteFields, mayCreate, mayUpdate) ==
    IF n > Len(desiredFields) \/ acc.thrown # NoError THEN acc
    ELSE DesiredFieldsLoop(
            DesiredFieldStep(acc, ctName, desiredFields[n], remoteFields,
                             mayCreate, mayUpdate),
            ctName, desiredFields, n + 1, remoteFields, mayCreate, mayUpdate)

\* camelCaseFieldName in desiredFields
InDesiredFields(fname, desiredFields) ==
    \E n \in 1..Len(desiredFields) : desiredFields[n].key = fname

\* a remote field is extra when the camel-cased slug is no desired key
IsExtraField(remoteFieldSlug, desiredFields) ==
    ~InDesiredFields(snakeToCamel(remoteFieldSlug), desiredFields)

ExtraFieldDiff(remoteField) ==
    [field |-> remoteField.slug, reason |-> "extra_field_remote",
     existing |-> [type |-> remoteField.type, required |-> remoteField.required,
                   isLabel |-> remoteField.is_label]]

RECURSIVE ExtraFieldsLoop(_, _, _, _, _)
\* the loop over the remote fields from entry n on
ExtraFieldsLoop(acc, desiredFields, remoteFields, n, mayDelete) ==
    IF n > Len(remoteFields) THEN acc
    ELSE ExtraFieldsLoop(
            IF IsExtraField(remoteFields[n].slug, desiredFields)
            THEN [acc EXCEPT
                    !.fieldDiffs = Append(@, ExtraFieldDiff(remoteFields[n])),
                    !.fieldsToDelete =
                        IF mayDelete THEN Append(@, remoteFields[n].id) ELSE @]
            ELSE acc,
            desiredFields, remoteFields, n + 1, mayDelete)

\* fieldDiffs, fieldsToCreate, fieldsToUpdate, fieldsToDelete of content type
\* ct against remoteContentType, or the error thrown on the way
DiffContentType(ct, remoteContentType, mayCreate, mayUpdate, mayDelete) ==
    LET afterDesired ==
            DesiredFieldsLoop(EmptyDiff, ct.name, ct.fields, 1,
                              remoteContentType.fields, mayCreate, mayUpdate)
    IN IF afterDesired.thrown # NoError THEN afterDesired
       ELSE ExtraFieldsLoop(afterDesired, ct.fields, remoteContentType.fields,
                            1, mayDelete)

\* whether the references of desired field entry are compared with those
\* of a remote field: a reference field with references, matched by a
\* remote field of the same type
ReferencesCompared(entry, remoteFields) ==
    /\ FieldsHas(remoteFields, camelToSnake(entry.key))
    /\ FieldsGet(remoteFields, camelToSnake(entry.key)).type = entry.def.type
    /\ IsReferenceType(entry.def.type)
    /\ entry.def.references # Undefined

\* variant: the references of the definition are sorted where they are
ReferencesSortedInPlace(fdef) == Some(Sort(OrElse(fdef.references, <<>>)))

\* fdef.references once compared: map() makes the list that is sorted, so
\* the list of the definition is as it was
ReferencesAfterCompare(fdef) == fdef.references

\* the field definitions of ct as the diff against remoteContentType
\* leaves them
DefinitionsAfterDiff(ct, remoteContentType) ==
    [m \in 1..Len(ct.fields) |->
        IF ReferencesCompared(ct.fields[m], remoteContentType.fields)
        THEN [ct.fields[m] EXCEPT
                !.def.references = ReferencesAfterCompare(ct.fields[m].def)]
        ELSE ct.fields[m]]

\* variant: planned updates are looked at before planned creations
ActionOfUpdatesFirst(ctName, diffs, toCreate, toUpdate, toDelete) ==
    IF Len(diffs) = 0 THEN [type |-> "noop", contentType |-> ctName]
    ELSE IF Len(toUpdate) > 0
    THEN [type |-> "update_fields", contentType |-> ctName,
          detail |-> [fieldDiffs |-> diffs, updated |-> Len(toUpdate)]]
    ELSE IF Len(toCreate) > 0
    THEN [type |-> "create_fields", contentType |-> ctName,
          detail |-> [fieldDiffs |-> diffs, created |-> Len(toCreate)]]
    ELSE IF Len(toDelete) > 0
    THEN [type |-> "delete_fields", contentType |-> ctName,
          detail |-> [fieldDiffs |-> diffs, deleted |-> Len(toDelete)]]
    ELSE [type |-> "mismatch", contentType |-> ctName,
          detail |-> [fieldDiffs |-> diffs]]

\* the action pushed for a content type once its field operations ran
ActionOf(ctName, diffs, toCreate, toUpdate, toDelete) ==
    IF Len(diffs) = 0 THEN [type |-> "noop", contentType |-> ctName]
    ELSE IF Len(toCreate) > 0
    THEN [type |-> "create_fields", contentType |-> ctName,
          detail |-> [fieldDiffs |-> diffs, created |-> Len(toCreate)]]
    ELSE IF Len(toUpdate) > 0
    THEN [type |-> "update_fields", contentType |-> ctName,
          detail |-> [fieldDiffs |-> diffs, updated |-> Len(toUpdate)]]
    ELSE IF Len(toDelete) > 0
    THEN [type |-> "delete_fields", contentType |-> ctName,
          detail |-> [fieldDiffs |-> diffs, deleted |-> Len(toDelete)]]
    ELSE [type |-> "mismatch", contentType |-> ctName,
          detail |-> [fieldDiffs |-> diffs]]

----------------------------------------------------------------------------
(* The backend behind the callbacks.  It keeps slugs unique, derives a
   field's slug from the name it is given and stores what it is sent. *)

BackendNames(b) == {b[n].slug : n \in 1..Len(b)}
BackendIds(b) == {b[n].id : n \in 1..Len(b)}
BackendFieldIds(b) == UNION {{b[n].fields[j].id : j \in 1..Len(b[n].fields)} : n \in 1..Len(b)}
BackendIndexOf(b, id) == CHOOSE n \in 1..Len(b) : b[n].id = id

\* identifiers are handed out lowest first
FreshCtId(b) ==
    IdPool[CHOOSE n \in 1..Len(IdPool) :
        /\ IdPool[n] \notin BackendIds(b)
        /\ \A m \in 1..(n - 1) : IdPool[m] \in BackendIds(b)]

FreshFieldId(b) ==
    CHOOSE n \in 1..(Cardinality(BackendFieldIds(b)) + 1) :
        /\ n \notin BackendFieldIds(b)
        /\ \A m \in 1..(n - 1) : m \in BackendFieldIds(b)

CanCreateContentType(b, ct) == ct.name \notin BackendNames(b)

\* create_content_type: a new type named after the definition, no fields
BackendCreateContentType(b, ct) ==
    Append(b, [id |-> FreshCtId(b), slug |-> ct.name, fields |-> <<>>])

CanCreateField(b, modelId, fieldName) ==
    /\ modelId \in BackendIds(b)
    /\ ~FieldsHas(b[BackendIndexOf(b, modelId)].fields, camelToSnake(fieldName))

\* create_field: the field is stored under the snake-cased name
BackendCreateField(b, modelId, fieldName, def) ==
    [b EXCEPT ![BackendIndexOf(b, modelId)].fields =
        Append(@, [id |-> FreshFieldId(b),
                   slug |-> camelToSnake(fieldName),
                   type |-> def.type,
                   is_label |-> Desired(def.isLabel),
                   required |-> Desired(def.required),
                   options |-> def.options,
                   reference_types |-> OrElse(def.references, <<>>)])]

\* update_field: the attributes present in changes replace the stored ones
BackendUpdateField(b, fieldId, changes) ==
    [n \in 1..Len(b) |->
        [b[n] EXCEPT !.fields =
            [j \in 1..Len(b[n].fields) |->
                IF b[n].fields[j].id # fieldId THEN b[n].fields[j]
                ELSE [b[n].fields[j] EXCEPT
                        !.required = OrElse(changes.required, @),
                        !.is_label = OrElse(changes.isLabel, @),
                        !.options = IF changes.options # Undefined
                                    THEN changes.options ELSE @,
                        !.reference_types = OrElse(changes.references, @)]]]]

RECURSIVE Without(_, _)
Without(fields, fieldId) ==
    IF fields = <<>> THEN <<>>
    ELSE IF Head(fields).id = fieldId THEN Without(Tail(fields), fieldId)
         ELSE <<Head(fields)>> \o Without(Tail(fields), fieldId)

\* delete_field
BackendDeleteField(b, fieldId) ==
    [n \in 1..Len(b) |-> [b[n] EXCEPT !.fields = Without(@, fieldId)]]

\* a callback either fails (and changes nothing) or succeeds; it cannot
\* succeed when the backend has to reject the request
Outcomes(possible) == IF possible THEN BOOLEAN ELSE {FALSE}

----------------------------------------------------------------------------
(* Record of the remote operations of one invocation *)

LogEntry(op, ct, modelId, fieldId, key, refs, ok) ==
    [op |-> op, ct |-> ct, modelId |-> modelId, fieldId |-> fieldId,
     key |-> key, refs |-> refs, ok |-> ok]

MutationOps == {"createContentType", "createField", "updateField", "deleteField"}
FieldOps == {"createField", "updateField", "deleteField"}

----------------------------------------------------------------------------
(* The request builders of the default remote callbacks.  A request is
   the record of the properties the builder sets; a property set to
   undefined is Undefined. *)

\* fieldTypeMap[type] || 'string': the map is the identity on FieldTypes
fieldTypeMap(type) == IF type \in FieldTypes THEN type ELSE "string"

\* controlTypeMap[backendType] || 'default'
controlTypeMap(backendType) == IF backendType = "string" THEN "text" ELSE "default"

\* the create_field request for a field definition (no settings are
\* modelled, so description is undefined and meta holds reference_types
\* only)
buildCreateFieldRequest(modelId, fieldName, fieldDef) ==
    [op_type |-> "create_field",
     content_type_id |-> modelId,
     name |-> fieldName,
     type |-> fieldTypeMap(fieldDef.type),
     control |-> controlTypeMap(fieldTypeMap(fieldDef.type)),
     required |-> OrElse(fieldDef.required, FALSE),
     description |-> Undefined,
     meta |-> IF fieldDef.references # Undefined
              THEN Some([reference_types |-> OrElse(fieldDef.references, <<>>)])
              ELSE Undefined]

\* the update_field request for the changes of a field: required, name,
\* description and meta are copied when given
buildUpdateFieldRequest(fieldId, changes) ==
    [op_type |-> "update_field",
     field_id |-> fieldId,
     required |-> changes.required,
     name |-> Undefined,
     description |-> Undefined,
     meta |-> IF changes.references # Undefined
              THEN Some([reference_types |-> OrElse(changes.references, <<>>)])
              ELSE Undefined]

----------------------------------------------------------------------------
(* syncWithFields *)

Init ==
    /\ desired \in DesiredSchemas
    /\ options \in OptionSets
    /\ backend \in InitialBackends
    /\ remoteAtStart = backend
    /\ pc = "idle"
    /\ i = 1
    /\ k = 1
    /\ contentTypeIdToName = EmptyMap
    /\ contentTypeNameToId = EmptyMap
    /\ remoteMap = EmptyMap
    /\ actions = <<>>
    /\ fieldDiffs = <<>>
    /\ fieldsToCreate = <<>>
    /\ fieldsToUpdate = <<>>
    /\ fieldsToDelete = <<>>
    /\ error = NoError
    /\ log = <<>>

\* where phase 3 goes on once the work of content type i is over
AfterContentType == IF i < Len(desired) THEN "phase3" ELSE "done"

\* the first field-operation loop at or after stage that has work to do
StageFrom(stage, toCreate, toUpdate, toDelete) ==
    IF stage = "create" /\ Len(toCreate) > 0 /\ ~dryRun THEN "create"
    ELSE IF stage \in {"create", "update"} /\ Len(toUpdate) > 0 /\ ~dryRun
    THEN "update"
    ELSE IF stage \in {"create", "update", "delete"} /\ Len(toDelete) > 0
            /\ ~dryRun
    THEN "delete"
    ELSE "action"

\* def.references / changes.references with every name looked up:
\* contentTypeNameToId.get(refName) || refName
ResolveReferences(refs) ==
    [m \in 1..Len(refs) |-> GetOrSelf(contentTypeNameToId, refs[m])]

\* variant: the state the remote is in is used although the inspection
\* threw
InspectIgnoringFailure(ok) == backend

\* remoteInspect after the try/catch around the initial inspection: the
\* content types of the response, none when the inspection threw (null)
InspectResponseOf(ok) == IF ok THEN backend ELSE <<>>

\* The call: options are destructured, the remote is inspected (a failed
\* inspection leaves remoteInspect null) and the lookup tables are built.
Invoke ==
    /\ pc \in {"idle", "done", "raised"}
    /\ \E ok \in BOOLEAN :
        LET resp == InspectResponseOf(ok)
        IN /\ contentTypeIdToName' = IdToNameOf(resp)
           /\ contentTypeNameToId' = NameToIdOf(resp)
           /\ remoteMap' = InitialRemoteMapOf(resp)
           /\ log' = <<LogEntry("inspect", "", "", 0, <<>>, <<>>, ok)>>
    /\ actions' = <<>>
    /\ error' = NoError
    /\ fieldDiffs' = <<>>
    /\ fieldsToCreate' = <<>>
    /\ fieldsToUpdate' = <<>>
    /\ fieldsToDelete' = <<>>
    /\ i' = 1
    /\ k' = 1
    /\ pc' = "phase1"
    /\ remoteAtStart' = backend
    /\ UNCHANGED <<desired, options, backend>>

\* variant: a missing content type is only planned when it will be created
MayCreateOnlyWhenApplying == createMissing /\ createContentType /\ ~dryRun

\* createMissing && createContentType
MayCreateContentType == createMissing /\ createContentType

\* actions.push({type: 'create', ...})
CreateAction(ct) ==
    [type |-> "create", contentType |-> ct.name,
     detail |-> [reason |-> "missing_content_type"]]

\* the action pushed in the catch: detail.error is String(e)
CreateFailedAction(ct) ==
    [type |-> "mismatch", contentType |-> ct.name,
     detail |-> [reason |-> "create_failed", error |-> "Error"]]

\* variant: the catch swallows the error
Phase1ActionsSilent(ct, ok) == <<CreateAction(ct)>>

\* the actions pushed for a missing content type whose creation is
\* attempted, ok telling whether createContentType returned
Phase1Actions(ct, ok) ==
    IF ok THEN <<CreateAction(ct)>>
    ELSE <<CreateAction(ct), CreateFailedAction(ct)>>

\* Phase 1, one iteration of the loop over the desired content types
Phase1 ==
    /\ pc = "phase1"
    /\ LET ct == desired[i]
       IN IF MapHas(remoteMap, ct.name)
          THEN UNCHANGED <<actions, backend, contentTypeNameToId, log>>
          ELSE IF MayCreateContentType
          THEN IF dryRun
               THEN /\ actions' = Append(actions, CreateAction(ct))
                    /\ UNCHANGED <<backend, contentTypeNameToId, log>>
               ELSE \E ok \in Outcomes(CanCreateContentType(backend, ct)) :
                    /\ log' = Append(log, LogEntry("createContentType", ct.name,
                                                   "", 0, <<>>, <<>>, ok))
                    /\ actions' = actions \o Phase1Actions(ct, ok)
                    /\ IF ok
                       THEN /\ backend' = BackendCreateContentType(backend, ct)
                            /\ contentTypeNameToId' =
                                 MapSet(contentTypeNameToId, ct.name, ct.name)
                       ELSE UNCHANGED <<backend, contentTypeNameToId>>
          ELSE /\ actions' = Append(actions,
                    [type |-> "skip", contentType |-> ct.name,
                     detail |-> [reason |-> "missing_content_type"]])
               /\ UNCHANGED <<backend, contentTypeNameToId, log>>
    /\ IF i < Len(desired)
       THEN i' = i + 1 /\ pc' = "phase1"
       ELSE i' = 1 /\ pc' = "phase2"
    /\ UNCHANGED <<desired, options, remoteAtStart, k, contentTypeIdToName, remoteMap,
                   fieldDiffs, fieldsToCreate, fieldsToUpdate, fieldsToDelete,
                   error>>

\* variant: the refresh is made only after a content type was created
RefreshOnlyAfterCreate ==
    ~dryRun /\ \E n \in 1..Len(log) : log[n].op = "createContentType" /\ log[n].ok

\* if (!dryRun)
ShouldRefresh == ~dryRun

\* variant: remoteMap is cleared before the inspection is awaited
RemoteMapClearedFirst == EmptyMap

\* remoteMap when the refresh inspection throws: the catch is reached before
\* remoteMap.clear(), so the map of the initial inspection stays
RemoteMapOnRefreshFailure == remoteMap

\* Phase 2: unless this is a dry run the remote is inspected again and the
\* tables are rebuilt; a failed refresh leaves them as they are
Phase2 ==
    /\ pc = "phase2"
    /\ IF ~ShouldRefresh
       THEN UNCHANGED <<contentTypeIdToName, contentTypeNameToId, remoteMap, log>>
       ELSE \E ok \in BOOLEAN :
            /\ log' = Append(log, LogEntry("refresh", "", "", 0, <<>>, <<>>, ok))
            /\ IF ok
               THEN /\ contentTypeIdToName' = IdToNameOf(backend)
                    /\ contentTypeNameToId' = NameToIdOf(backend)
                    /\ remoteMap' = RefreshedRemoteMapOf(backend)
               ELSE /\ remoteMap' = RemoteMapOnRefreshFailure
                    /\ UNCHANGED <<contentTypeIdToName, contentTypeNameToId>>
    /\ pc' = "phase3"
    /\ UNCHANGED <<desired, options, remoteAtStart, backend, i, k, actions, fieldDiffs,
                   fieldsToCreate, fieldsToUpdate, fieldsToDelete, error>>

\* Phase 3, top of the loop for content type i: skip it when it is not in
\* remoteMap, otherwise compute its field diff, which may throw
Phase3Diff ==
    /\ pc = "phase3"
    /\ LET ct == desired[i]
       IN IF ~MapHas(remoteMap, ct.name)
          THEN /\ pc' = AfterContentType
               /\ i' = IF i < Len(desired) THEN i + 1 ELSE i
               /\ UNCHANGED <<desired, fieldDiffs, fieldsToCreate, fieldsToUpdate,
                              fieldsToDelete, error>>
          ELSE LET d == DiffContentType(ct, remoteMap[ct.name],
                            createMissingFields /\ createField,
                            updateFields /\ updateField,
                            deleteExtraFields /\ deleteField)
               IN /\ desired' = [desired EXCEPT ![i].fields =
                                    DefinitionsAfterDiff(ct, remoteMap[ct.name])]
                  /\ IF d.thrown # NoError
                     THEN /\ error' = d.thrown
                          /\ pc' = "raised"
                          /\ UNCHANGED <<i, fieldDiffs, fieldsToCreate,
                                         fieldsToUpdate, fieldsToDelete>>
                     ELSE /\ fieldDiffs' = d.fieldDiffs
                          /\ fieldsToCreate' = d.fieldsToCreate
                          /\ fieldsToUpdate' = d.fieldsToUpdate
                          /\ fieldsToDelete' = d.fieldsToDelete
                          /\ pc' = StageFrom("create", d.fieldsToCreate,
                                             d.fieldsToUpdate, d.fieldsToDelete)
                          /\ UNCHANGED <<i, error>>
    /\ k' = 1
    /\ UNCHANGED <<options, remoteAtStart, backend, contentTypeIdToName,
                   contentTypeNameToId, remoteMap, actions, log>>

\* variant: one try around the loops, so that the first failing call ends
\* the field operations of the content type
AdvanceUntilFailure(stage, len) ==
    IF ~log'[Len(log')].ok
    THEN k' = 1 /\ pc' = "action"
    ELSE IF k < len
    THEN k' = k + 1 /\ pc' = stage
    ELSE /\ k' = 1
         /\ pc' = StageFrom(IF stage = "create" THEN "update" ELSE
                            IF stage = "update" THEN "delete" ELSE "action",
                            fieldsToCreate, fieldsToUpdate, fieldsToDelete)

\* variant: a call that failed is made once more
AdvanceRetrying(stage, len) ==
    IF ~log'[Len(log')].ok /\ log[Len(log)] # log'[Len(log')]
    THEN k' = k /\ pc' = stage
    ELSE IF k < len
    THEN k' = k + 1 /\ pc' = stage
    ELSE /\ k' = 1
         /\ pc' = StageFrom(IF stage = "create" THEN "update" ELSE
                            IF stage = "update" THEN "delete" ELSE "action",
                            fieldsToCreate, fieldsToUpdate, fieldsToDelete)

\* the operation loops go on to entry k + 1 or to the next stage
Advance(stage, len) ==
    IF k < len
    THEN k' = k + 1 /\ pc' = stage
    ELSE /\ k' = 1
         /\ pc' = StageFrom(IF stage = "create" THEN "update" ELSE
                            IF stage = "update" THEN "delete" ELSE "action",
                            fieldsToCreate, fieldsToUpdate, fieldsToDelete)

\* one createField call; a failure appends another missing_field diff
CreateField ==
    /\ pc = "create"
    /\ LET name == fieldsToCreate[k].name
           def == fieldsToCreate[k].def
           modelId == remoteMap[desired[i].name].id
           defWithResolvedReferences ==
               IF IsReferenceType(def.type) /\ def.references # Undefined
               THEN [def EXCEPT !.references =
                        Some(ResolveReferences(OrElse(def.references, <<>>)))]
               ELSE def
       IN \E ok \in Outcomes(CanCreateField(backend, modelId, name)) :
            /\ log' = Append(log, LogEntry("createField", desired[i].name, modelId,
                        0, name, OrElse(defWithResolvedReferences.references, <<>>),
                        ok))
            /\ IF ok
               THEN /\ backend' = BackendCreateField(backend, modelId, name,
                                                     defWithResolvedReferences)
                    /\ UNCHANGED fieldDiffs
               ELSE /\ fieldDiffs' = Append(fieldDiffs, MissingFieldDiff(name, def))
                    /\ UNCHANGED backend
    /\ Advance("create", Len(fieldsToCreate))
    /\ UNCHANGED <<desired, options, remoteAtStart, i, contentTypeIdToName, contentTypeNameToId,
                   remoteMap, actions, fieldsToCreate, fieldsToUpdate,
                   fieldsToDelete, error>>

\* one updateField call; a failure is only logged
UpdateField ==
    /\ pc = "update"
    /\ LET id == fieldsToUpdate[k].id
           changes == fieldsToUpdate[k].changes
           resolvedChanges ==
               IF changes.references # Undefined
               THEN [changes EXCEPT !.references =
                        Some(ResolveReferences(OrElse(changes.references, <<>>)))]
               ELSE changes
       IN \E ok \in Outcomes(id \in BackendFieldIds(backend)) :
            /\ log' = Append(log, LogEntry("updateField", desired[i].name, "", id,
                        fieldsToUpdate[k].name,
                        OrElse(resolvedChanges.references, <<>>), ok))
            /\ backend' = IF ok THEN BackendUpdateField(backend, id, resolvedChanges)
                                ELSE backend
    /\ Advance("update", Len(fieldsToUpdate))
    /\ UNCHANGED <<desired, options, remoteAtStart, i, contentTypeIdToName, contentTypeNameToId,
                   remoteMap, actions, fieldDiffs, fieldsToCreate, fieldsToUpdate,
                   fieldsToDelete, error>>

\* one deleteField call; a failure is only logged
DeleteField ==
    /\ pc = "delete"
    /\ LET id == fieldsToDelete[k]
       IN \E ok \in Outcomes(id \in BackendFieldIds(backend)) :
            /\ log' = Append(log, LogEntry("deleteField", desired[i].name, "", id,
                                           <<>>, <<>>, ok))
            /\ backend' = IF ok THEN BackendDeleteField(backend, id) ELSE backend
    /\ Advance("delete", Len(fieldsToDelete))
    /\ UNCHANGED <<desired, options, remoteAtStart, i, contentTypeIdToName, contentTypeNameToId,
                   remoteMap, actions, fieldDiffs, fieldsToCreate, fieldsToUpdate,
                   fieldsToDelete, error>>

\* the action of content type i is pushed and the loop goes on
PushAction ==
    /\ pc = "action"
    /\ actions' = Append(actions, ActionOf(desired[i].name, fieldDiffs,
                            fieldsToCreate, fieldsToUpdate, fieldsToDelete))
    /\ pc' = AfterContentType
    /\ i' = IF i < Len(desired) THEN i + 1 ELSE i
    /\ UNCHANGED <<desired, options, remoteAtStart, backend, k, contentTypeIdToName,
                   contentTypeNameToId, remoteMap, fieldDiffs, fieldsToCreate,
                   fieldsToUpdate, fieldsToDelete, error, log>>

Next ==
    \/ Invoke
    \/ Phase1
    \/ Phase2
    \/ Phase3Diff
    \/ CreateField
    \/ UpdateField
    \/ DeleteField
    \/ PushAction

Spec == Init /\ [][Next]_vars

\* after repeated invocations every step is eventually taken
FairSpec == Spec /\ WF_vars(Next)

----------------------------------------------------------------------------
(* The field diff on its own: a dry run that has reached phase 3 for one
   content type with one field, the references or options lists of the
   desired and of the remote field being any lists up to MaxListLen. *)

OptionValues == {"p", "q"}

\* a desired reference field c, or a desired string field t with options
DiffDesiredFields ==
    {[key |-> <<"c">>,
      def |-> FieldDef("reference", Undefined, Undefined, Undefined, Some(refs))] :
        refs \in SeqsUpTo(CtNames, MaxListLen)}
    \cup
    {[key |-> <<"t">>,
      def |-> FieldDef("string", Undefined, Undefined, opts, Undefined)] :
        opts \in {Undefined} \cup {Some(o) : o \in SeqsUpTo(OptionValues, MaxListLen)}}

\* the remote field c with any reference_types, or t with any options
DiffRemoteFields ==
    {[id |-> 1, slug |-> <<"c">>, type |-> "reference", is_label |-> FALSE,
      required |-> FALSE, options |-> Undefined, reference_types |-> refs] :
        refs \in SeqsUpTo(CtIds, MaxListLen)}
    \cup
    {[id |-> 1, slug |-> <<"t">>, type |-> "string", is_label |-> FALSE,
      required |-> FALSE, options |-> opts, reference_types |-> <<>>] :
        opts \in {Undefined} \cup {Some(o) : o \in SeqsUpTo(OptionValues, MaxListLen)}}

\* the remote content types, the first of them holding remote field rf
DiffBackend(rf) ==
    [n \in 1..MaxContentTypes |->
        [id |-> IdPool[n], slug |-> NamePool[n],
         fields |-> IF n = 1 THEN <<rf>> ELSE <<>>]]

\* a dry run with default options at the top of phase 3: the inspection
\* succeeded and phase 1 found the content type
DiffInit ==
    /\ \E e \in DiffDesiredFields : \E rf \in DiffRemoteFields :
          /\ rf.slug = camelToSnake(e.key)
          /\ desired = <<[name |-> NamePool[1], fields |-> <<e>>]>>
          /\ backend = DiffBackend(rf)
    /\ options = [dryRun |-> Undefined, createMissing |-> Undefined,
                  createMissingFields |-> Undefined, updateFields |-> Undefined,
                  deleteExtraFields |-> Undefined, callbacks |-> Callbacks]
    /\ remoteAtStart = backend
    /\ pc = "phase3"
    /\ i = 1
    /\ k = 1
    /\ contentTypeIdToName = IdToNameOf(backend)
    /\ contentTypeNameToId = NameToIdOf(backend)
    /\ remoteMap = InitialRemoteMapOf(backend)
    /\ actions = <<>>
    /\ fieldDiffs = <<>>
    /\ fieldsToCreate = <<>>
    /\ fieldsToUpdate = <<>>
    /\ fieldsToDelete = <<>>
    /\ error = NoError
    /\ log = <<LogEntry("inspect", "", "", 0, <<>>, <<>>, TRUE)>>

DiffNext == Phase3Diff \/ PushAction

DiffSpec == DiffInit /\ [][DiffNext]_vars

----------------------------------------------------------------------------
(* Vocabulary of the properties *)

\* the caller asked for a dry run: dryRun is true or left out
DryRunRequested == options.dryRun \in {Undefined, Some(TRUE)}

Returned == pc = "done"
Raised == pc = "raised"
InPhase3 == pc \in {"phase3", "create", "update", "delete", "action"}

LogIndices(ops) == {n \in 1..Len(log) : log[n].op \in ops}
ActionsOf(name) == {n \in 1..Len(actions) : actions[n].contentType = name}
ActionTypesOf(name) == {actions[n].type : n \in ActionsOf(name)}
DesiredNames == {desired[n].name : n \in 1..Len(desired)}

----------------------------------------------------------------------------
(* C1: in a dry run (dryRun true or omitted) the only remote operation of
   the invocation is the initial inspection: no createContentType,
   createField, updateField or deleteField call and no refresh, whatever
   the desired schema, the remote state and the other flags. *)
C1_DryRunOnlyInspects ==
    DryRunRequested =>
        /\ Len(log) <= 1
        /\ \A n \in 1..Len(log) : log[n].op = "inspect"

\* a finished dry run with dryRun left out that planned a creation and
\* reported field differences
C1_Witness ==
    /\ Returned
    /\ options.dryRun = Undefined
    /\ \E n \in 1..Len(actions) : actions[n].type = "create"
    /\ \E n \in 1..Len(actions) : actions[n].type = "mismatch"
    /\ Len(log) = 1

----------------------------------------------------------------------------
\* a desired field of ct whose type differs from that of the field of the
\* same normalized name in remoteMap
TypeConflict(ct, entry) ==
    /\ MapHas(remoteMap, ct.name)
    /\ FieldsHas(remoteMap[ct.name].fields, camelToSnake(entry.key))
    /\ FieldsGet(remoteMap[ct.name].fields, camelToSnake(entry.key)).type
         # entry.def.type

HasTypeConflict(ct) == \E n \in 1..Len(ct.fields) : TypeConflict(ct, ct.fields[n])

(* C2: when a desired field of content type T differs in type from the
   remote field of the same normalized name (the remote state phase 3
   works from), the invocation does not return: it raises an error that
   names a conflicting field and its content type, and no createField,
   updateField or deleteField call is made for T in that invocation. *)
C2_TypeChangeRaises ==
    /\ Returned => \A n \in 1..Len(desired) : ~HasTypeConflict(desired[n])
    /\ Raised =>
         \E n \in 1..Len(desired) : \E m \in 1..Len(desired[n].fields) :
            /\ TypeConflict(desired[n], desired[n].fields[m])
            /\ error.field = desired[n].fields[m].key
            /\ error.contentType = desired[n].name
    /\ (InPhase3 \/ Returned \/ Raised) =>
         \A n \in 1..Len(desired) :
            HasTypeConflict(desired[n]) =>
                \A m \in LogIndices(FieldOps) : log[m].ct # desired[n].name

\* a non-dry run that raised for the second content type after field
\* operations were made for the first one
C2_Witness ==
    /\ Raised
    /\ ~DryRunRequested
    /\ error.contentType = desired[Len(desired)].name
    /\ Len(desired) > 1
    /\ LogIndices(FieldOps) # {}

----------------------------------------------------------------------------
(* C3: in a non-dry-run invocation the phase-2 refresh happens exactly
   once, after every createContentType call and before every createField,
   updateField and deleteField call of that invocation. *)
C3_RefreshIsBarrier ==
    ~DryRunRequested =>
        /\ Cardinality(LogIndices({"refresh"})) <= 1
        /\ (InPhase3 \/ Returned \/ Raised) =>
              Cardinality(LogIndices({"refresh"})) = 1
        /\ \A r \in LogIndices({"refresh"}) :
              /\ \A c \in LogIndices({"createContentType"}) : c < r
              /\ \A f \in LogIndices(FieldOps) : r < f
        /\ LogIndices(FieldOps) # {} => LogIndices({"refresh"}) # {}

\* a finished run that created a content type and then created a field
C3_Witness ==
    /\ Returned
    /\ LogIndices({"createContentType"}) # {}
    /\ LogIndices({"refresh"}) # {}
    /\ LogIndices(FieldOps) # {}

----------------------------------------------------------------------------
\* the apply flags for content types and fields are on, with callbacks
CreatesEnabled ==
    /\ createMissing /\ createContentType
    /\ createMissingFields /\ createField

AbsentAtStart(ct) == ct.name \notin BackendNames(remoteAtStart)

\* every createContentType and createField call made for ct, and the
\* refresh, succeeded
CreationSucceeded(ct) ==
    /\ \E n \in LogIndices({"createContentType"}) : log[n].ct = ct.name /\ log[n].ok
    /\ \E n \in LogIndices({"refresh"}) : log[n].ok
    /\ \A n \in LogIndices({"createField"}) : log[n].ct = ct.name => log[n].ok

\* ct was created, then createField was called once for each of its fields
\* with the identifier the backend gave it, and the result has a create
\* action followed by a create_fields action counting those fields
CreatedWithFields(ct) ==
    /\ \A m \in 1..Len(ct.fields) :
          Cardinality({n \in LogIndices({"createField"}) :
                          log[n].ct = ct.name /\ log[n].key = ct.fields[m].key}) = 1
    /\ \A n \in LogIndices({"createField"}) :
          log[n].ct = ct.name =>
              /\ log[n].modelId \in BackendIds(backend)
              /\ backend[BackendIndexOf(backend, log[n].modelId)].slug = ct.name
              /\ \E c \in LogIndices({"createContentType"}) :
                    log[c].ct = ct.name /\ c < n
    /\ Returned
    /\ \E p, q \in ActionsOf(ct.name) :
          /\ p < q
          /\ actions[p].type = "create"
          /\ actions[q].type = "create_fields"
          /\ actions[q].detail.created = Len(ct.fields)

(* C4 as stated: in a non-dry run with createMissing and
   createMissingFields on, a desired content type T that is absent
   remotely and declares N fields is, when createContentType, the refresh
   and createField all succeed, created and given its N fields in that one
   invocation, and the result has create then create_fields (created = N)
   for T. *)
C4_CreatedWithFieldsInOneRun ==
    (pc \in {"done", "raised"} /\ ~DryRunRequested /\ CreatesEnabled) =>
        \A n \in 1..Len(desired) :
            (AbsentAtStart(desired[n]) /\ CreationSucceeded(desired[n]))
                => CreatedWithFields(desired[n])

(* C4 amended: the same, for N >= 1 and when the invocation returns
   (another content type with a changed field type makes it raise before
   T's fields are reached; with N = 0 the second action is noop). *)
C4_CreatedWithFieldsWhenReturned ==
    (Returned /\ ~DryRunRequested /\ CreatesEnabled) =>
        \A n \in 1..Len(desired) :
            (/\ AbsentAtStart(desired[n])
             /\ CreationSucceeded(desired[n])
             /\ Len(desired[n].fields) >= 1)
                => CreatedWithFields(desired[n])

\* a returned run that created a content type and its two fields, while
\* another content type was present from the start
C4_Witness ==
    /\ Returned
    /\ ~DryRunRequested
    /\ CreatesEnabled
    /\ \E n \in 1..Len(desired) :
          /\ AbsentAtStart(desired[n])
          /\ CreationSucceeded(desired[n])
          /\ Len(desired[n].fields) = 2
          /\ CreatedWithFields(desired[n])

----------------------------------------------------------------------------
InspectionsSucceeded ==
    \A n \in LogIndices({"inspect", "refresh"}) : log[n].ok

\* names of the content types with the identifiers refs in backend b
NamesOfIds(b, refs) ==
    {b[n].slug : n \in {m \in 1..Len(b) : b[m].id \in Range(refs)}}

\* the remote field rf of backend b is what the desired entry asks for
EquivalentField(entry, rf, b) ==
    /\ rf.slug = camelToSnake(entry.key)
    /\ rf.type = entry.def.type
    /\ rf.required = Desired(entry.def.required)
    /\ rf.is_label = Desired(entry.def.isLabel)
    /\ OrElse(rf.options, <<>>) = OrElse(entry.def.options, <<>>)
    /\ Range(rf.reference_types) \subseteq BackendIds(b)
    /\ NamesOfIds(b, rf.reference_types) = Range(OrElse(entry.def.references, <<>>))

\* every desired field of ct has an equivalent remote field in rct
DesiredFieldsPresent(ct, rct, b) ==
    \A m \in 1..Len(ct.fields) : \E j \in 1..Len(rct.fields) :
        EquivalentField(ct.fields[m], rct.fields[j], b)

\* remote fields of rct whose slug no desired key of ct normalizes to
ExtraFieldsOf(ct, rct) ==
    {j \in 1..Len(rct.fields) :
        \A m \in 1..Len(ct.fields) :
            camelToSnake(ct.fields[m].key) # rct.fields[j].slug}

RemoteOf(b, name) == b[CHOOSE n \in 1..Len(b) : b[n].slug = name]

\* backend b holds every desired content type with an equivalent field set
EquivalentSchema(b) ==
    \A n \in 1..Len(desired) :
        /\ desired[n].name \in BackendNames(b)
        /\ DesiredFieldsPresent(desired[n], RemoteOf(b, desired[n].name), b)
        /\ ExtraFieldsOf(desired[n], RemoteOf(b, desired[n].name)) = {}

AllNoop ==
    /\ Len(actions) = Len(desired)
    /\ \A n \in 1..Len(actions) :
          actions[n].type = "noop" /\ actions[n].contentType = desired[n].name

(* C5: when every desired content type exists remotely with an equivalent
   field set (same normalized names, types, required and label flags,
   options and reference targets), the invocation returns one noop action
   per content type and calls no mutation callback, in a dry run and in a
   non-dry run alike. *)
C5_EquivalentIsNoop ==
    (pc \in {"done", "raised"} /\ InspectionsSucceeded
        /\ EquivalentSchema(remoteAtStart)) =>
        /\ Returned
        /\ AllNoop
        /\ LogIndices(MutationOps) = {}

----------------------------------------------------------------------------
\* every flag on, dryRun off, every callback supplied
ApplyAll ==
    /\ options.dryRun = Some(FALSE)
    /\ createMissing /\ createMissingFields /\ updateFields /\ deleteExtraFields
    /\ options.callbacks = Callbacks

\* no desired field differs in type from the field of backend b with the
\* same normalized name
NoTypeConflictIn(b) ==
    \A n \in 1..Len(desired) :
        desired[n].name \in BackendNames(b) =>
            \A m \in 1..Len(desired[n].fields) :
            \A j \in 1..Len(RemoteOf(b, desired[n].name).fields) :
                RemoteOf(b, desired[n].name).fields[j].slug
                        = camelToSnake(desired[n].fields[m].key)
                    => RemoteOf(b, desired[n].name).fields[j].type
                        = desired[n].fields[m].def.type

SomeCallFailed == \E n \in 1..Len(log) : ~log[n].ok

(* C6: from a remote state without field-type conflict, with dryRun off
   and every apply flag on, repeated invocations in which every inspection
   and callback succeeds eventually reach an invocation that returns only
   noop actions. *)
C6_RepeatedSyncConverges ==
    (pc = "idle" /\ ApplyAll /\ NoTypeConflictIn(backend)) =>
        <>(SomeCallFailed \/ (Returned /\ AllNoop))

----------------------------------------------------------------------------
\* the phase-3 action of content type name, once pushed
FieldActionsOf(name) ==
    {n \in ActionsOf(name) :
        actions[n].type \in {"noop", "create_fields", "update_fields",
                             "delete_fields", "mismatch"}
        /\ ~(actions[n].type = "mismatch"
             /\ "reason" \in DOMAIN actions[n].detail)}

\* ct is present in backend b and differs from it only by remote fields
\* without desired counterpart
OnlyExtraFields(ct, b) ==
    /\ ct.name \in BackendNames(b)
    /\ DesiredFieldsPresent(ct, RemoteOf(b, ct.name), b)
    /\ ExtraFieldsOf(ct, RemoteOf(b, ct.name)) # {}

ExtraFieldIds(ct, b) ==
    {RemoteOf(b, ct.name).fields[j].id : j \in ExtraFieldsOf(ct, RemoteOf(b, ct.name))}

ExtraFieldSlugs(ct, b) ==
    {RemoteOf(b, ct.name).fields[j].slug : j \in ExtraFieldsOf(ct, RemoteOf(b, ct.name))}

DeleteCallsFor(name) == {n \in LogIndices({"deleteField"}) : log[n].ct = name}

HasExtraDiff(diffs, slug) ==
    \E d \in 1..Len(diffs) :
        diffs[d].reason = "extra_field_remote" /\ diffs[d].field = slug

(* C7: for a content type T present remotely whose only difference is a
   remote field without desired counterpart: with deleteExtraFields off
   (the default) deleteField is never called and T's action is mismatch
   with an extra_field_remote diff for that field; with deleteExtraFields
   on, dryRun off and a working deleteField, deleteField is called once
   with that field's id and T's action is delete_fields with deleted = the
   number of extra fields. *)
C7_ExtraFieldReportedOrDeleted ==
    (Returned /\ InspectionsSucceeded) =>
        \A n \in 1..Len(desired) :
            OnlyExtraFields(desired[n], remoteAtStart) =>
                /\ ~deleteExtraFields =>
                      /\ DeleteCallsFor(desired[n].name) = {}
                      /\ \A a \in FieldActionsOf(desired[n].name) :
                            /\ actions[a].type = "mismatch"
                            /\ \A slug \in ExtraFieldSlugs(desired[n], remoteAtStart) :
                                  HasExtraDiff(actions[a].detail.fieldDiffs, slug)
                /\ (deleteExtraFields /\ deleteField /\ ~DryRunRequested
                      /\ \A c \in DeleteCallsFor(desired[n].name) : log[c].ok) =>
                      /\ \A id \in ExtraFieldIds(desired[n], remoteAtStart) :
                            Cardinality({c \in DeleteCallsFor(desired[n].name) :
                                            log[c].fieldId = id}) = 1
                      /\ \A c \in DeleteCallsFor(desired[n].name) :
                            log[c].fieldId \in ExtraFieldIds(desired[n], remoteAtStart)
                      /\ \A a \in FieldActionsOf(desired[n].name) :
                            /\ actions[a].type = "delete_fields"
                            /\ actions[a].detail.deleted =
                                 Cardinality(ExtraFieldIds(desired[n], remoteAtStart))

----------------------------------------------------------------------------
\* the diff of content type i has been computed
DiffComputed == pc \in {"create", "update", "delete", "action"}

(* C8: in the field diff of a content type, a remote field is reported as
   extra_field_remote if and only if no desired field key normalizes (by
   the normalization of the desired-field lookup) to its canonical name;
   a remote field matched by a desired field is never reported as extra,
   whatever the casing of the desired key. *)
C8_ExtraIffUnmatched ==
    DiffComputed =>
        \A j \in 1..Len(remoteMap[desired[i].name].fields) :
            HasExtraDiff(fieldDiffs, remoteMap[desired[i].name].fields[j].slug)
                <=> (\A m \in 1..Len(desired[i].fields) :
                        camelToSnake(desired[i].fields[m].key)
                            # remoteMap[desired[i].name].fields[j].slug)

----------------------------------------------------------------------------
(* C9: in a dry run with createMissing on and a createContentType callback,
   a desired content type T that is absent from the remote schema gets,
   when the invocation returns, exactly one action, of type create, and no
   field-level action, however many fields it declares. *)
C9_DryRunPlansCreateOnly ==
    (Returned /\ DryRunRequested /\ createMissing /\ createContentType) =>
        \A n \in 1..Len(desired) :
            AbsentAtStart(desired[n]) =>
                /\ Cardinality(ActionsOf(desired[n].name)) = 1
                /\ ActionTypesOf(desired[n].name) = {"create"}

\* a returned dry run that planned the creation of a content type with two
\* fields next to a content type that exists
C9_Witness ==
    /\ Returned
    /\ DryRunRequested /\ createMissing /\ createContentType
    /\ InspectionsSucceeded
    /\ \E n \in 1..Len(desired) :
          /\ AbsentAtStart(desired[n])
          /\ Len(desired[n].fields) = 2
          /\ ActionTypesOf(desired[n].name) = {"create"}
    /\ \E n \in 1..Len(desired) : ~AbsentAtStart(desired[n])

----------------------------------------------------------------------------
(* C10: every element of the references handed to createField, and of
   changes.references handed to updateField, is the identifier of a
   content type of the most recently fetched remote state, never a
   content-type name, also when the refresh failed or the referenced
   content type does not exist remotely. *)
C10_ReferencesAreIds ==
    \A n \in LogIndices({"createField", "updateField"}) :
        \A m \in 1..Len(log[n].refs) :
            /\ log[n].refs[m] \notin Range(NamePool)
            /\ log[n].refs[m] \in DOMAIN contentTypeIdToName

----------------------------------------------------------------------------
\* phase 1 of this invocation is over
Phase1Over == pc \notin {"idle", "phase1"}

\* the createContentType calls of this invocation that raised
FailedCreations == {n \in LogIndices({"createContentType"}) : ~log[n].ok}

\* a mismatch action for content type name that carries the error
HasCreateFailedAction(name) ==
    \E a \in ActionsOf(name) :
        /\ actions[a].type = "mismatch"
        /\ "error" \in DOMAIN actions[a].detail
        /\ actions[a].detail.error = "Error"

(* C11: in a non-dry-run phase 1, when createContentType raises for a
   content type T, a mismatch action for T carrying the error is in the
   result, createContentType is still called for every later desired
   content type that is missing remotely, and the failure does not make
   the invocation raise: phase 1 runs to its end and the refresh follows. *)
C11_CreateFailureIsRecorded ==
    (~DryRunRequested /\ MayCreateContentType) =>
        /\ \A n \in FailedCreations : HasCreateFailedAction(log[n].ct)
        /\ Phase1Over =>
              /\ \A n \in 1..Len(desired) :
                    AbsentAtStart(desired[n]) =>
                        \E c \in LogIndices({"createContentType"}) :
                            log[c].ct = desired[n].name
              /\ FailedCreations # {} =>
                    (pc = "phase2" \/ LogIndices({"refresh"}) # {})
        /\ (Raised /\ FailedCreations # {}) => error # NoError

\* a returned run in which the creation of the first content type failed
\* and the second one was created all the same
C11_Witness ==
    /\ Returned
    /\ ~DryRunRequested
    /\ Len(desired) = 2
    /\ \E m, n \in LogIndices({"createContentType"}) :
          /\ m < n
          /\ ~log[m].ok /\ log[m].ct = desired[1].name
          /\ log[n].ok /\ log[n].ct = desired[2].name
    /\ HasCreateFailedAction(desired[1].name)

----------------------------------------------------------------------------
\* the calls of callback op made for content type name in this invocation
FieldCallsOf(op, name) == {n \in LogIndices({op}) : log[n].ct = name}

\* every planned field operation of content type i has been attempted,
\* once, whether or not an earlier one failed
AllPlannedAttempted ==
    /\ \A m \in 1..Len(fieldsToCreate) :
          Cardinality({n \in FieldCallsOf("createField", desired[i].name) :
                          log[n].key = fieldsToCreate[m].name}) = 1
    /\ \A m \in 1..Len(fieldsToUpdate) :
          Cardinality({n \in FieldCallsOf("updateField", desired[i].name) :
                          /\ log[n].key = fieldsToUpdate[m].name
                          /\ log[n].fieldId = fieldsToUpdate[m].id}) = 1
    /\ \A m \in 1..Len(fieldsToDelete) :
          Cardinality({n \in FieldCallsOf("deleteField", desired[i].name) :
                          log[n].fieldId = fieldsToDelete[m]}) = 1

InFieldOperations == pc \in {"create", "update", "delete"}

(* C12: in phase 3 an error raised by createField, updateField or
   deleteField never keeps the remaining planned field operations of the
   same content type, nor those of later content types, from being
   attempted, and never makes the invocation raise: a field-operation step
   is followed by the next operation or by the content type's action, and
   when the action of a content type is due in a non-dry run every planned
   operation of that content type has been attempted. *)
C12_FieldFailureDoesNotBlock ==
    [][/\ InFieldOperations => (InFieldOperations' \/ pc' = "action")
       /\ (~dryRun /\ pc' = "action") => AllPlannedAttempted']_vars

\* a createField call for the first content type failed, the next one was
\* made all the same, and so was a field operation of the second content
\* type
C12_Witness ==
    /\ Returned
    /\ Len(desired) = 2
    /\ \E m, n, q \in LogIndices(FieldOps) :
          /\ m < n /\ n < q
          /\ ~log[m].ok
          /\ log[m].ct = desired[1].name
          /\ log[n].ct = desired[1].name
          /\ log[q].ct = desired[2].name

----------------------------------------------------------------------------
\* the diff of desired content type n as phase 3 computes it from remoteMap
PlannedDiff(n) ==
    DiffContentType(desired[n], remoteMap[desired[n].name],
                    createMissingFields /\ createField,
                    updateFields /\ updateField,
                    deleteExtraFields /\ deleteField)

\* the action the invocation returns for desired content type n when every
\* field callback succeeds
ActionWhenAllSucceed(n) ==
    ActionOf(desired[n].name, PlannedDiff(n).fieldDiffs,
             PlannedDiff(n).fieldsToCreate, PlannedDiff(n).fieldsToUpdate,
             PlannedDiff(n).fieldsToDelete)

\* some createField, updateField or deleteField call for name failed
FieldCallFailed(name) ==
    \E c \in LogIndices(FieldOps) : log[c].ct = name /\ ~log[c].ok

(* C13: when a createField, updateField or deleteField call fails in a
   non-dry run, the returned actions record the failure for the content
   type concerned: its action differs from the one the same run returns
   when every callback succeeds. *)
C13_FieldFailureIsRecorded ==
    (Returned /\ ~DryRunRequested) =>
        \A n \in 1..Len(desired) :
            FieldCallFailed(desired[n].name) =>
                \A a \in FieldActionsOf(desired[n].name) :
                    actions[a] # ActionWhenAllSucceed(n)

----------------------------------------------------------------------------
RefreshFailed == \E n \in LogIndices({"refresh"}) : ~log[n].ok

\* what the initial inspection of this invocation returned (nothing when
\* it failed)
InitialResponse == IF log # <<>> /\ log[1].ok THEN remoteAtStart ELSE <<>>

\* the content types createContentType was called for in this invocation
CreationAttempted == {log[n].ct : n \in LogIndices({"createContentType"})}

(* C14: when the phase-2 refresh fails the invocation does not raise
   because of it; phase 3 runs against the remote state of the initial
   inspection, so that every desired content type that existed then is
   still diffed and gets its field action, and no createField, updateField
   or deleteField call is made for a content type created in phase 1 of
   this invocation. *)
C14_RefreshFailureKeepsStaleState ==
    (~DryRunRequested /\ RefreshFailed) =>
        /\ InPhase3 \/ Returned \/ Raised
        /\ remoteMap = InitialRemoteMapOf(InitialResponse)
        /\ Raised => (error # NoError /\ MapHas(remoteMap, error.contentType))
        /\ \A f \in LogIndices(FieldOps) : log[f].ct \notin CreationAttempted
        /\ Returned =>
              \A n \in 1..Len(desired) :
                  IF desired[n].name \in BackendNames(InitialResponse)
                  THEN /\ Cardinality(FieldActionsOf(desired[n].name)) = 1
                       /\ \A a \in FieldActionsOf(desired[n].name) :
                             actions[a].type = ActionWhenAllSucceed(n).type
                  ELSE FieldActionsOf(desired[n].name) = {}

\* a returned run whose refresh failed after a content type was created,
\* and in which a field operation was made for a content type that
\* existed from the start
C14_Witness ==
    /\ Returned
    /\ ~DryRunRequested
    /\ RefreshFailed
    /\ \E c \in LogIndices({"createContentType"}) : log[c].ok
    /\ \E f \in LogIndices(FieldOps) :
          log[f].ct \in BackendNames(InitialResponse)

----------------------------------------------------------------------------
InitialInspectionFailed == log # <<>> /\ ~log[1].ok

\* the one action a dry run plans for a content type missing remotely
PlannedTypeForMissing ==
    IF createMissing /\ createContentType THEN "create" ELSE "skip"

(* C15: when the initial inspection fails the invocation does not raise
   because of it and goes on as if the remote schema were empty: phase 1
   sees no remote content type, and a dry run returns, for every desired
   content type, exactly one action, create (skip when creation is
   disabled or no createContentType callback is supplied), and no
   field-level action. *)
C15_FailedInspectionMeansEmptyRemote ==
    InitialInspectionFailed =>
        /\ pc \in {"phase1", "phase2"} => remoteMap = EmptyMap
        /\ DryRunRequested =>
              /\ ~Raised
              /\ remoteMap = EmptyMap
              /\ Returned =>
                    /\ Len(actions) = Len(desired)
                    /\ \A n \in 1..Len(desired) :
                          /\ actions[n].contentType = desired[n].name
                          /\ actions[n].type = PlannedTypeForMissing

\* a returned dry run whose inspection failed although the remote holds
\* the desired content type, with a field of another type
C15_Witness ==
    /\ Returned
    /\ DryRunRequested
    /\ InitialInspectionFailed
    /\ \E n \in 1..Len(desired) :
          /\ desired[n].name \in BackendNames(backend)
          /\ ~NoTypeConflictIn(backend)
          /\ actions[n].type = "create"

----------------------------------------------------------------------------
\* createContentType is called at most once per content type, createField
\* at most once per content type and desired field, deleteField at most
\* once per remote field
OncePerContentTypeAndField ==
    /\ \A m, n \in LogIndices({"createContentType"}) :
          log[m].ct = log[n].ct => m = n
    /\ \A m, n \in LogIndices({"createField"}) :
          (log[m].ct = log[n].ct /\ log[m].key = log[n].key) => m = n
    /\ \A m, n \in LogIndices({"deleteField"}) :
          log[m].fieldId = log[n].fieldId => m = n

(* C16 as stated: within one invocation each mutation callback is
   attempted at most once per target: createContentType once per desired
   content type, createField once per content type and desired field,
   updateField and deleteField once per remote field id; a failed call is
   never retried. *)
C16_AtMostOncePerTarget ==
    /\ OncePerContentTypeAndField
    /\ \A m, n \in LogIndices({"updateField"}) :
          log[m].fieldId = log[n].fieldId => m = n

(* C16 amended: the same, with updateField attempted at most once per
   content type and desired field (two desired keys that normalize to the
   same remote field are each applied to it). *)
C16_AtMostOncePerPlannedOperation ==
    /\ OncePerContentTypeAndField
    /\ \A m, n \in LogIndices({"updateField"}) :
          (log[m].ct = log[n].ct /\ log[m].key = log[n].key) => m = n

\* a returned run in which a createContentType call and a field call
\* failed
C16_Witness ==
    /\ Returned
    /\ \E n \in LogIndices({"createContentType"}) : ~log[n].ok
    /\ \E n \in LogIndices(FieldOps) : ~log[n].ok

----------------------------------------------------------------------------
(* C17 as stated: a dry run always completes normally and returns an
   action list; it never raises, whatever the desired schema and the
   remote state. *)
C17_DryRunNeverRaises == DryRunRequested => ~Raised

(* C17 amended: a dry run raises only the field-type error, for a desired
   field whose type differs from that of the remote field of the same
   normalized name; otherwise it returns a plan with exactly one action for
   every desired content type, also after a failed inspection. *)
C17_DryRunRaisesOnlyOnTypeChange ==
    DryRunRequested =>
        /\ Raised =>
              \E n \in 1..Len(desired) :
                  /\ HasTypeConflict(desired[n])
                  /\ error.contentType = desired[n].name
        /\ Returned =>
              /\ Len(actions) = Len(desired)
              /\ \A n \in 1..Len(desired) :
                    Cardinality(ActionsOf(desired[n].name)) = 1

\* a dry run that raised after it had planned the creation of another
\* content type
C17_Witness ==
    /\ Raised
    /\ DryRunRequested
    /\ \E n \in 1..Len(actions) : actions[n].type = "create"

----------------------------------------------------------------------------
\* the diff of content type i is the one phase 3 computed from the state
\* the remote is in: every inspection succeeded and no field operation has
\* been made for the content type yet
DiffOfCurrentRemote ==
    /\ DiffComputed
    /\ InspectionsSucceeded
    /\ \A n \in LogIndices(FieldOps) : log[n].ct # desired[i].name

\* the remote field a desired entry of content type i is matched with
RemoteFieldOf(entry) ==
    FieldsGet(RemoteOf(backend, desired[i].name).fields, camelToSnake(entry.key))

\* entry is matched with a remote field of the same type
MatchedSameType(entry) ==
    /\ FieldsHas(RemoteOf(backend, desired[i].name).fields, camelToSnake(entry.key))
    /\ RemoteFieldOf(entry).type = entry.def.type

\* the field_changes entries of fieldDiffs for desired key
ChangeEntriesOf(key) ==
    {d \in 1..Len(fieldDiffs) :
        fieldDiffs[d].reason = "field_changes" /\ fieldDiffs[d].field = key}

RequiredChangeReported(entry) ==
    \E d \in ChangeEntriesOf(entry.key) :
        fieldDiffs[d].changes.required =
            Some([existing |-> RemoteFieldOf(entry).required,
                  desired |-> OrElse(entry.def.required, FALSE)])

LabelChangeReported(entry) ==
    \E d \in ChangeEntriesOf(entry.key) :
        fieldDiffs[d].changes.isLabel =
            Some([existing |-> RemoteFieldOf(entry).is_label,
                  desired |-> OrElse(entry.def.isLabel, FALSE)])

\* no diff entry for the desired key, and none that reports the matched
\* remote field as extra
NoDiffEntryFor(entry) ==
    \A d \in 1..Len(fieldDiffs) :
        /\ fieldDiffs[d].field # entry.key
        /\ ~(fieldDiffs[d].reason = "extra_field_remote"
             /\ fieldDiffs[d].field = RemoteFieldOf(entry).slug)

(* C18: for a desired field matched with a remote field of the same type,
   the diff has a field_changes entry with changes.required = {existing:
   remote flag, desired: desired flag (false when omitted)} exactly when
   the required flags differ, likewise changes.isLabel for the label
   flags; when required, isLabel, options and references all agree there
   is no diff entry for the field. *)
C18_FlagChangesAreReported ==
    DiffOfCurrentRemote =>
        \A m \in 1..Len(desired[i].fields) :
            MatchedSameType(desired[i].fields[m]) =>
                /\ RequiredChangeReported(desired[i].fields[m])
                     <=> (RemoteFieldOf(desired[i].fields[m]).required
                            # OrElse(desired[i].fields[m].def.required, FALSE))
                /\ LabelChangeReported(desired[i].fields[m])
                     <=> (RemoteFieldOf(desired[i].fields[m]).is_label
                            # OrElse(desired[i].fields[m].def.isLabel, FALSE))
                /\ EquivalentField(desired[i].fields[m],
                                   RemoteFieldOf(desired[i].fields[m]), backend)
                     => NoDiffEntryFor(desired[i].fields[m])

----------------------------------------------------------------------------
\* number of occurrences of x in list s
CountOf(x, s) == Cardinality({n \in 1..Len(s) : s[n] = x})

\* s and t hold the same values the same number of times
SameUpToOrder(s, t) ==
    \A x \in Range(s) \cup Range(t) : CountOf(x, s) = CountOf(x, t)

\* the desired reference entries of content type i that have a remote field
ReferenceEntries ==
    {m \in 1..Len(desired[i].fields) :
        /\ IsReferenceType(desired[i].fields[m].def.type)
        /\ desired[i].fields[m].def.references # Undefined
        /\ MatchedSameType(desired[i].fields[m])}

\* the names of the remote reference targets (ids mapped to names)
RemoteTargetNames(entry) ==
    [n \in 1..Len(RemoteFieldOf(entry).reference_types) |->
        GetOrSelf(IdToNameOf(backend), RemoteFieldOf(entry).reference_types[n])]

ReferencesChangeReported(entry) ==
    \E d \in ChangeEntriesOf(entry.key) :
        fieldDiffs[d].changes.references # Undefined

(* C19 as stated: for a reference field the diff does not depend on the
   order of the reference targets, and when the desired target names and
   the remote target names (ids mapped to names) are the same set, no
   references change is reported. *)
C19_SameSetNoReferencesChange ==
    DiffOfCurrentRemote =>
        \A m \in ReferenceEntries :
            /\ SameUpToOrder(OrElse(desired[i].fields[m].def.references, <<>>),
                             RemoteTargetNames(desired[i].fields[m]))
                 => ~ReferencesChangeReported(desired[i].fields[m])
            /\ Range(OrElse(desired[i].fields[m].def.references, <<>>))
                    = Range(RemoteTargetNames(desired[i].fields[m]))
                 => ~ReferencesChangeReported(desired[i].fields[m])

(* C19 amended: a references change is reported exactly when the desired
   target names and the remote target names differ as lists up to order
   (some name occurs a different number of times); the order of either
   list never matters. *)
C19_ReferencesComparedUpToOrder ==
    DiffOfCurrentRemote =>
        \A m \in ReferenceEntries :
            ReferencesChangeReported(desired[i].fields[m])
                <=> ~SameUpToOrder(OrElse(desired[i].fields[m].def.references, <<>>),
                                   RemoteTargetNames(desired[i].fields[m]))

\* desired references in another order than the remote ones, and no
\* references change in the computed diff
C19_Witness ==
    /\ DiffOfCurrentRemote
    /\ \E m \in ReferenceEntries :
          /\ Len(RemoteTargetNames(desired[i].fields[m])) = 2
          /\ OrElse(desired[i].fields[m].def.references, <<>>)
                # RemoteTargetNames(desired[i].fields[m])
          /\ ~ReferencesChangeReported(desired[i].fields[m])
          /\ fieldDiffs = <<>>

----------------------------------------------------------------------------
OptionsChangeReported(entry) ==
    \E d \in ChangeEntriesOf(entry.key) :
        fieldDiffs[d].changes.options # Undefined

(* C20: an options change is reported for a field if and only if the
   desired option list and the remote option list differ as sets of
   values: the same members in another order never give changes.options,
   and lists whose sets of values differ always give it. *)
C20_OptionsComparedAsSets ==
    DiffOfCurrentRemote =>
        \A m \in 1..Len(desired[i].fields) :
            MatchedSameType(desired[i].fields[m]) =>
                (OptionsChangeReported(desired[i].fields[m])
                    <=> Range(OrElse(desired[i].fields[m].def.options, <<>>))
                         # Range(OrElse(RemoteFieldOf(desired[i].fields[m]).options,
                                        <<>>)))

----------------------------------------------------------------------------
(* The remote schema in the hands of another client while syncWithFields
   runs *)

\* delete_content_type: the content type with identifier id is gone
BackendDeleteContentType(b, id) == SelectSeq(b, LAMBDA t : t.id # id)

\* another client deletes a content type between the initial inspection of
\* this invocation and its refresh
DeleteContentTypeElsewhere ==
    /\ pc \in {"phase1", "phase2"}
    /\ \E id \in BackendIds(backend) :
          backend' = BackendDeleteContentType(backend, id)
    /\ UNCHANGED <<desired, options, remoteAtStart, pc, i, k, contentTypeIdToName,
                   contentTypeNameToId, remoteMap, actions, fieldDiffs,
                   fieldsToCreate, fieldsToUpdate, fieldsToDelete, error, log>>

\* one invocation of syncWithFields
FirstInvoke == pc = "idle" /\ Invoke

\* the steps of one invocation, and those of the other client
ConcurrentNext ==
    \/ FirstInvoke
    \/ Phase1
    \/ Phase2
    \/ Phase3Diff
    \/ CreateField
    \/ UpdateField
    \/ DeleteField
    \/ PushAction
    \/ DeleteContentTypeElsewhere

ConcurrentSpec == Init /\ [][ConcurrentNext]_vars

----------------------------------------------------------------------------
(* The configuration loader: content-type names are snake-cased.  A name is
   a sequence of one-character strings. *)

Digits == {"1"}
SpaceOrHyphen == {" ", "-"}
Punctuation == {"."}
NameChars == {"t", "T", "_"} \cup Digits \cup SpaceOrHyphen \cup Punctuation

Alphanumeric == LowerChars \cup UpperChars \cup Digits

RECURSIVE CamelBoundariesFrom(_, _)
CamelBoundariesFrom(str, offset) ==
    IF offset > Len(str) THEN <<>>
    ELSE IF /\ offset < Len(str)
            /\ str[offset] \in LowerChars \cup Digits
            /\ str[offset + 1] \in UpperChars
    THEN <<str[offset], "_", str[offset + 1]>> \o CamelBoundariesFrom(str, offset + 2)
    ELSE <<str[offset]>> \o CamelBoundariesFrom(str, offset + 1)

\* .replace(/([a-z0-9])([A-Z])/g, '$1_$2')
CamelBoundaries(str) == CamelBoundariesFrom(str, 1)

RECURSIVE RunsFrom(_, _, _)
RunsFrom(str, offset, chars) ==
    IF offset > Len(str) THEN <<>>
    ELSE IF str[offset] \in chars
    THEN IF offset > 1 /\ str[offset - 1] \in chars
         THEN RunsFrom(str, offset + 1, chars)
         ELSE <<"_">> \o RunsFrom(str, offset + 1, chars)
    ELSE <<str[offset]>> \o RunsFrom(str, offset + 1, chars)

\* .replace(/[chars]+/g, '_'): every run of chars becomes one underscore
ReplaceRuns(str, chars) == RunsFrom(str, 1, chars)

\* .replace(/[^a-zA-Z0-9_]/g, '_')
ReplaceOthers(str) ==
    [n \in 1..Len(str) |->
        IF str[n] \in Alphanumeric \cup {"_"} THEN str[n] ELSE "_"]

RECURSIVE TrimLeft(_)
TrimLeft(str) ==
    IF Len(str) > 0 /\ str[1] = "_" THEN TrimLeft(Tail(str)) ELSE str

RECURSIVE TrimRight(_)
TrimRight(str) ==
    IF Len(str) > 0 /\ str[Len(str)] = "_"
    THEN TrimRight(SubSeq(str, 1, Len(str) - 1)) ELSE str

\* .replace(/^_+|_+$/g, '')
TrimUnderscores(str) == TrimRight(TrimLeft(str))

\* .toLowerCase()
toLowerCase(str) ==
    [n \in 1..Len(str) |-> IF str[n] \in UpperChars THEN ToLower[str[n]] ELSE str[n]]

\* variant: the underscores are trimmed before anything is replaced
toSnakeCaseTrimFirst(input) ==
    toLowerCase(ReplaceRuns(ReplaceOthers(ReplaceRuns(
        CamelBoundaries(TrimUnderscores(input)), SpaceOrHyphen)), {"_"}))

\* toSnakeCase of the configuration loader
toSnakeCase(input) ==
    toLowerCase(TrimUnderscores(ReplaceRuns(ReplaceOthers(ReplaceRuns(
        CamelBoundaries(input), SpaceOrHyphen)), {"_"})))

\* the names a configuration file may give a content type
RawNames == SeqsUpTo(NameChars, MaxNameLen)

\* a configuration with one content type, before it is normalized
LoadInit ==
    /\ \E raw \in RawNames : desired = <<[name |-> raw, fields |-> <<>>]>>
    /\ options = previewSync
    /\ backend = <<>>
    /\ remoteAtStart = backend
    /\ pc = "load"
    /\ i = 1
    /\ k = 1
    /\ contentTypeIdToName = EmptyMap
    /\ contentTypeNameToId = EmptyMap
    /\ remoteMap = EmptyMap
    /\ actions = <<>>
    /\ fieldDiffs = <<>>
    /\ fieldsToCreate = <<>>
    /\ fieldsToUpdate = <<>>
    /\ fieldsToDelete = <<>>
    /\ error = NoError
    /\ log = <<>>

\* normalizeContentType: the name is replaced by its snake case; loading
\* what was loaded normalizes it again
normalizeContentType ==
    /\ pc \in {"load", "loaded"}
    /\ desired' = [desired EXCEPT ![1].name = toSnakeCase(@)]
    /\ pc' = "loaded"
    /\ UNCHANGED <<options, backend, remoteAtStart, i, k, contentTypeIdToName,
                   contentTypeNameToId, remoteMap, actions, fieldDiffs,
                   fieldsToCreate, fieldsToUpdate, fieldsToDelete, error, log>>

LoadNext == normalizeContentType

LoadSpec == LoadInit /\ [][LoadNext]_vars

----------------------------------------------------------------------------
\* the calls of callback op for content type name that returned
SucceededCallsOf(op, name) == {n \in FieldCallsOf(op, name) : log[n].ok}

(* C21: in a non-dry run the counter of a create_fields, update_fields or
   delete_fields action (created, updated, deleted) is the number of
   createField, updateField or deleteField calls for that content type
   that completed without error. *)
C21_CountersCountSuccesses ==
    (Returned /\ ~DryRunRequested) =>
        \A a \in 1..Len(actions) :
            /\ actions[a].type = "create_fields" =>
                  actions[a].detail.created =
                      Cardinality(SucceededCallsOf("createField", actions[a].contentType))
            /\ actions[a].type = "update_fields" =>
                  actions[a].detail.updated =
                      Cardinality(SucceededCallsOf("updateField", actions[a].contentType))
            /\ actions[a].type = "delete_fields" =>
                  actions[a].detail.deleted =
                      Cardinality(SucceededCallsOf("deleteField", actions[a].contentType))

----------------------------------------------------------------------------
(* C22: the command-line sync without --dry (applySync), run against a
   remote content type holding a field that is no longer defined locally,
   removes that field: deleteField is called with the id of each such
   field. *)
C22_CliSyncRemovesUndefinedFields ==
    (options = applySync /\ Returned /\ InspectionsSucceeded) =>
        \A n \in 1..Len(desired) :
            OnlyExtraFields(desired[n], remoteAtStart) =>
                \A id \in ExtraFieldIds(desired[n], remoteAtStart) :
                    \E c \in DeleteCallsFor(desired[n].name) : log[c].fieldId = id

----------------------------------------------------------------------------
\* the request the default createField callback builds for the call about
\* to be made
CreateRequest ==
    buildCreateFieldRequest(remoteMap[desired[i].name].id,
                            fieldsToCreate[k].name, fieldsToCreate[k].def)

\* the request the default updateField callback builds for the call about
\* to be made
UpdateRequest ==
    buildUpdateFieldRequest(fieldsToUpdate[k].id, fieldsToUpdate[k].changes)

(* C23: the request builders of the default callbacks propagate the label
   flag and the options: the create request of a definition with
   isLabel = true has is_label = true and carries the definition's options
   at its root; the update request carries is_label when changes.isLabel
   is given and options when changes.options is given. *)
C23_BuildersPropagateLabelAndOptions ==
    /\ pc = "create" =>
          /\ fieldsToCreate[k].def.isLabel = Some(TRUE) =>
                /\ "is_label" \in DOMAIN CreateRequest
                /\ CreateRequest.is_label = TRUE
          /\ fieldsToCreate[k].def.options # Undefined =>
                /\ "options" \in DOMAIN CreateRequest
                /\ Some(CreateRequest.options) = fieldsToCreate[k].def.options
    /\ pc = "update" =>
          /\ fieldsToUpdate[k].changes.isLabel # Undefined =>
                /\ "is_label" \in DOMAIN UpdateRequest
                /\ Some(UpdateRequest.is_label) = fieldsToUpdate[k].changes.isLabel
          /\ fieldsToUpdate[k].changes.options # Undefined =>
                /\ "options" \in DOMAIN UpdateRequest
                /\ Some(UpdateRequest.options) = fieldsToUpdate[k].changes.options

----------------------------------------------------------------------------
(* C24: syncWithFields never changes the desired content-type definitions
   it is given: names, field keys and, per field, type, required, isLabel,
   the options list and the references list (order and elements) are after
   every step what they were before it. *)
C24_DesiredIsNeverMutated == [][desired' = desired]_vars

\* the references of a desired field, listed out of sort order, have been
\* compared with those of its remote field
C24_Witness ==
    /\ DiffComputed
    /\ \E m \in 1..Len(desired[i].fields) :
          /\ ReferencesCompared(desired[i].fields[m],
                                remoteMap[desired[i].name].fields)
          /\ DesiredReferences(desired[i].fields[m].def)
                # OrElse(desired[i].fields[m].def.references, <<>>)

----------------------------------------------------------------------------
(* C25: toSnakeCase of the configuration loader is idempotent: for every
   name over letters of both cases, digits, underscores, spaces, hyphens
   and other punctuation, normalizing the normalized name gives the
   normalized name again. *)
C25_ToSnakeCaseIsIdempotent ==
    /\ pc = "load" =>
          toSnakeCase(toSnakeCase(desired[1].name)) = toSnakeCase(desired[1].name)
    /\ pc = "loaded" => toSnakeCase(desired[1].name) = desired[1].name

\* a name with a word boundary has been normalized
C25_Witness ==
    /\ pc = "loaded"
    /\ desired[1].name = <<"t", "_", "t", "1">>

----------------------------------------------------------------------------
\* the type the rule of phase 3 gives the action of the content type whose
\* field operations are over
RuledType ==
    IF fieldDiffs = <<>> THEN "noop"
    ELSE IF fieldsToCreate # <<>> THEN "create_fields"
    ELSE IF fieldsToUpdate # <<>> THEN "update_fields"
    ELSE IF fieldsToDelete # <<>> THEN "delete_fields"
    ELSE "mismatch"

\* the step out of pc = "action" appends one action for content type i, of
\* the ruled type and with the whole field diff
AppendsRuledAction ==
    pc = "action" =>
        /\ Len(actions') = Len(actions) + 1
        /\ SubSeq(actions', 1, Len(actions)) = actions
        /\ actions'[Len(actions')].contentType = desired[i].name
        /\ actions'[Len(actions')].type = RuledType
        /\ RuledType # "noop" =>
              actions'[Len(actions')].detail.fieldDiffs = fieldDiffs

(* C26: for each desired content type present in the remote state phase 3
   works on, phase 3 appends exactly one action: noop if and only if the
   field diff is empty, otherwise create_fields if a creation is planned,
   else update_fields if an update is planned, else delete_fields if a
   deletion is planned, else mismatch; its detail carries the whole list
   of field diffs. *)
C26_OneRuledActionPerContentType ==
    /\ [](Returned =>
            \A n \in 1..Len(desired) :
                MapHas(remoteMap, desired[n].name) =>
                    Cardinality(FieldActionsOf(desired[n].name)) = 1)
    /\ [][AppendsRuledAction]_vars

\* a content type with a creation and an update planned got create_fields
C26_Witness ==
    /\ Returned
    /\ \E a \in 1..Len(actions) :
          /\ actions[a].type = "create_fields"
          /\ \E d \in 1..Len(actions[a].detail.fieldDiffs) :
                actions[a].detail.fieldDiffs[d].reason = "field_changes"
          /\ i = Len(desired) /\ actions[a].contentType = desired[i].name
          /\ fieldsToUpdate # <<>>

----------------------------------------------------------------------------
\* the refresh of this invocation succeeded
RefreshSucceeded == \E n \in LogIndices({"refresh"}) : log[n].ok

\* the inspection response phase 3 works on: that of the refresh when it
\* succeeded (content types are neither added nor removed after it), else
\* that of the initial inspection
ResponseOfPhase3 == IF RefreshSucceeded THEN backend ELSE InitialResponse

(* C27: throughout phase 3 the name-to-id and id-to-name tables hold
   exactly the entries of one inspection response, that of the refresh
   when it succeeded and that of the initial inspection otherwise: no
   entry added in phase 1 is left, and no name is mapped to something that
   is not a remote identifier. *)
C27_TablesComeFromOneInspection ==
    InPhase3 =>
        /\ contentTypeNameToId = NameToIdOf(ResponseOfPhase3)
        /\ contentTypeIdToName = IdToNameOf(ResponseOfPhase3)

----------------------------------------------------------------------------
(* C28: createContentType is called for a desired content type only if the
   type does not exist on the remote backend when the invocation starts;
   in particular a failed initial inspection never leads to a
   createContentType call for a type that exists. *)
C28_CreatesOnlyAbsentTypes ==
    \A c \in LogIndices({"createContentType"}) :
        log[c].ct \notin BackendNames(remoteAtStart)

----------------------------------------------------------------------------
\* the slugs of the fields with identifier fieldId in the remote state
\* phase 3 works on, for content type name
SlugsOfFieldId(name, fieldId) ==
    {remoteMap[name].fields[j].slug :
        j \in {h \in 1..Len(remoteMap[name].fields) :
                  remoteMap[name].fields[h].id = fieldId}}

\* the normalized names of the desired keys of content type name
NormalizedKeysOf(name) ==
    UNION {{camelToSnake(desired[n].fields[m].key) : m \in 1..Len(desired[n].fields)} :
              n \in {h \in 1..Len(desired) : desired[h].name = name}}

(* C29: deleteField is only called with the identifier of a remote field
   whose canonical name is not the normalized name of any desired key of
   its content type: a remote field matched by a desired field is never
   deleted, whatever the casing of the key, also with deleteExtraFields
   on. *)
C29_MatchedFieldNeverDeleted ==
    \A c \in LogIndices({"deleteField"}) :
        /\ MapHas(remoteMap, log[c].ct)
        /\ SlugsOfFieldId(log[c].ct, log[c].fieldId) # {}
        /\ SlugsOfFieldId(log[c].ct, log[c].fieldId) \cap NormalizedKeysOf(log[c].ct) = {}

----------------------------------------------------------------------------
(* C30: every desired content type appears in at least one action of the
   list a non-raising invocation returns, also when another party changes
   the remote schema between the initial inspection and the phase-2
   refresh (a content type present at the initial inspection is absent
   from the refresh). *)
C30_EveryDesiredTypeHasAnAction ==
    Returned => \A n \in 1..Len(desired) : ActionsOf(desired[n].name) # {}

====
